---- MODULE Spec2Model ----
(***************************************************************************)
(* Model of screen-recorder-pro.                                           *)
(*                                                                         *)
(* Part 1: the ScreenRecorder React component (src/unnamed/part_000).      *)
(* React state is the committed state of the component; every handler is   *)
(* one action.  A handler is a closure: it reads the `state` of the render *)
(* that created it.  The Stop button and the Upload button use the latest  *)
(* render; the interval callback of startTimer (useCallback with no deps)  *)
(* uses the stopRecording of the mount render; the onended handler uses    *)
(* the stopRecording of the render whose startRecording was clicked.       *)
(* The browser (MediaRecorder, media tracks, AudioContext, permission      *)
(* prompts, fetch) is the environment: its events are actions as well.     *)
(***************************************************************************)
EXTENDS Integers, Sequences, FiniteSets, TLC

\* ---------------------------------------------------------------- bounds
\* Spec: one capture session with its upload, a few seconds of recording
MaxSessions == 1
MaxFrags == 2
MaxStopCalls == 2
MaxUploads == 1
MaxTicks == 2
\* SpecCap: one session recorded up to the duration cap and past it
CapSessions == 1
CapFrags == 1
CapStopCalls == 1
CapUploads == 1
CapTickCalls == 182
\* SpecOverlap: capture sessions that overlap
OverlapSessions == 2
OverlapFrags == 1
OverlapStopCalls == 1
OverlapTicks == 1
\* SpecAgain: a second capture session beside the upload of the first
AgainSessions == 2
AgainFrags == 1
AgainStopCalls == 1
AgainUploads == 1
AgainTicks == 1
\* SpecCodec: one capture session
CodecSessions == 1
CodecFrags == 1
CodecStopCalls == 1

Max(S) == CHOOSE x \in S : \A y \in S : y <= x

NumSessions == Max({MaxSessions, CapSessions, OverlapSessions, AgainSessions})

\* SpecQueue: the upload queue
MaxFileIds == 2

\* SpecApi: the recordings stored over time, and the requests in progress
MaxStored == 2
MaxRequests == 2

\* SpecList: the recordings listed, and the DELETE requests issued over time
MaxListIds == 2
MaxDeleteCalls == 3

\* ------------------------------------------------------ program constants
MaxRecordingSeconds == 180
\* maxSize = 100 * 1024 * 1024
MaxSize == 104857600
\* SpecRange: the length of a Range header, in characters
MaxRangeLen == 5
\* the lengths of the recording of SpecRange
RangeTotals == {1, 3, 13}
RecIds == 1..MaxStored
FileRefs == 1..MaxStored
Requests == 1..MaxRequests
\* maxFileSize = 100 * 1024 * 1024, maxFiles = 5
MaxFileSize == 104857600
maxFiles == 5

FileIds == 1..MaxFileIds
ListIds == 1..MaxListIds
DeleteCalls == 1..MaxDeleteCalls
ProgressValues == {50}
HttpStatuses == {200, 400, 500}

Sessions == 1..NumSessions
FragSizes == {0, 1}
ErrorNames == {"NotAllowedError", "NotFoundError", "NotSupportedError", "OtherError"}

\* the candidates of the codec selection, in the order they are tried
Vp9Opus == "video/webm;codecs=vp9,opus"
Vp8Opus == "video/webm;codecs=vp8,opus"
PlainWebm == "video/webm"
MimeTypes == <<Vp9Opus, Vp8Opus, PlainWebm>>
MimeTypeSet == {Vp9Opus, Vp8Opus, PlainWebm}

NoError == "null"
MicWarning == "Microphone access denied. Recording system audio only."
EmptyCaptureError == "Recording completed but no data was captured. Please try again."
UploadFailed == "Upload failed"
PreviewUnavailable == "Recording completed but preview is not available. You can still download the file."
RecordingFailed == "Recording failed. Please try again."

\* ------------------------------------------------------------ React state
VARIABLES isRecording, recordedBlob, recordingTime, stream,
          micEnabled, uploadStatus, error, videoUrl
\* ------------------------------------------------------------------- refs
VARIABLES mediaRecorderRef, chunksRef, timerRef, audioContextRef
\* ------------------------------- startRecording invocations and closures
VARIABLES pc, clickState, effectStream
\* ------------------------------------------------- browser (environment)
VARIABLES tracks, recState, recStream, timers, ctxState, endedPending,
          previewTimer, uploadReq
\* ------------------------------------------------ history (observation)
VARIABLES stopCalls, blobCount, delivered, capFired, endedHandled,
          micRequested, micDenied, closeCalls, uploadsSent,
          ticksDone, errorHandled

stateVars == <<isRecording, recordedBlob, recordingTime, stream,
               micEnabled, uploadStatus, error, videoUrl>>
refVars == <<mediaRecorderRef, chunksRef, timerRef, audioContextRef>>
closureVars == <<pc, clickState, effectStream>>
envVars == <<tracks, recState, recStream, timers, ctxState, endedPending,
             previewTimer, uploadReq>>
histVars == <<stopCalls, blobCount, delivered, capFired, endedHandled,
              micRequested, micDenied, closeCalls, uploadsSent,
              ticksDone>>
\* ------------------------------------------------- FileUpload component
VARIABLES uploadFiles, nextFileId, xhrInflight, postsSent

queueVars == <<uploadFiles, nextFileId, xhrInflight, postsSent>>
\* ------------------------------------- the API: stores, requests, history
VARIABLES records, chunkSets, req, nextRecId, nextFileRef, deletedOk

apiVars == <<records, chunkSets, req, nextRecId, nextFileRef, deletedOk>>
\* ------------- RecordingsList component, its requests, the server's ids
VARIABLES recordings, deletingIds, selectedIds, fetches, nextCall,
          bulkCalls, listFetch, alertShown, serverIds

listVars == <<recordings, deletingIds, selectedIds, fetches, nextCall,
              bulkCalls, listFetch, alertShown, serverIds>>
\* ---- the runtime's MediaRecorder.isTypeSupported, the type each start chose
VARIABLES isTypeSupported, mimeType

codecVars == <<isTypeSupported, mimeType>>
recorderVars == <<stateVars, refVars, closureVars, envVars, histVars>>
vars == <<recorderVars, errorHandled, queueVars, apiVars, listVars, codecVars>>

\* what the handlers of one component leave alone
besideRecorder == <<errorHandled, queueVars, apiVars, listVars, codecVars>>
\* the same for the handlers that run the tail of startRecording
besideSetup == <<errorHandled, queueVars, apiVars, listVars, isTypeSupported>>
besideQueue == <<recorderVars, errorHandled, apiVars, listVars, codecVars>>
besideApi == <<recorderVars, errorHandled, queueVars, listVars, codecVars>>
besideList == <<recorderVars, errorHandled, queueVars, apiVars, codecVars>>

\* ------------------------------------------------------------------ values
NoStream == [sess |-> 0, kind |-> "none"]
NoBlob == [isNull |-> TRUE, parts |-> <<>>]
NoTracks == [video |-> "none", audio |-> "none", mic |-> "none", dest |-> "none"]

\* new Blob(chunks, {type})
NewBlob(parts) == [isNull |-> FALSE, parts |-> parts]

RECURSIVE SumSizes(_)
SumSizes(parts) ==
    IF parts = <<>> THEN 0 ELSE Head(parts).size + SumSizes(Tail(parts))

\* blob.size
BlobSize(b) == SumSizes(b.parts)

\* stream.getTracks(): the tracks a stream object holds
StreamTracks(kind) ==
    CASE kind = "display" -> {"video", "audio"}
      [] kind = "mixed" -> {"video", "dest"}
      [] OTHER -> {}

\* stream.getTracks().forEach((track) => track.stop())
StopTracksOf(tr, strm) ==
    IF strm.sess = 0 THEN tr
    ELSE [tr EXCEPT ![strm.sess] =
            [k \in DOMAIN @ |->
                IF k \in StreamTracks(strm.kind) /\ @[k] = "live"
                THEN "ended" ELSE @[k]]]

\* the state of the mount render, which the interval callback's
\* stopRecording closes over
MountState == [isRecording |-> FALSE, stream |-> NoStream]

\* the state of the latest render
CurrentState == [isRecording |-> isRecording, stream |-> stream]

\* ------------------------------------- values of the RecordingsList
\* an alert: the template literal and the values interpolated into it
Alert(text, args) == [text |-> text, args |-> args]
NoAlert == Alert("none", <<>>)
\* `${failedCount} recording(s) failed to delete. Please try again.`
BulkFailedAlert(failedCount) ==
    Alert("N recording(s) failed to delete. Please try again.",
          <<failedCount>>)
\* `Failed to delete recording: ${errorData.error}`
SingleNotOkAlert == Alert("Failed to delete recording: E", <<>>)
SingleRejectedAlert ==
    Alert("Failed to delete recording. Please try again.", <<>>)
\* the GET /api/recordings of fetchRecordings, and the data it carries
NoListFetch == [pending |-> FALSE, data |-> {}]

\* ------------------------------------------------- values of the API
\* Number.parseInt of a string without a leading digit, and every number
\* computed from it
NaN == -1000000

NoRange == <<"null">>

\* a JSON response without a stream
JsonResponse(status) ==
    [status |-> status,
     contentRange |-> [start |-> NaN, end |-> NaN, total |-> NaN],
     contentLength |-> NaN,
     streamStart |-> NaN,
     streamEnd |-> NaN]

NoResponse == JsonResponse(0)

NoRecord ==
    [exists |-> FALSE, fileId |-> 0, size |-> 0, duration |-> 0,
     contentType |-> "none"]
NoChunks == [stored |-> FALSE, length |-> 0]

NullEntry == [kind |-> "null", type |-> "none", size |-> 0]

IdleRequest ==
    [kind |-> "none", pc |-> "idle", id |-> 0, fileId |-> 0,
     entry |-> NullEntry, range |-> NoRange, resp |-> NoResponse,
     list |-> <<>>, failedAt |-> "none", late |-> FALSE, duration |-> 0]

InitSession ==
    /\ isRecording = FALSE
    /\ recordedBlob = NoBlob
    /\ recordingTime = 0
    /\ stream = NoStream
    /\ micEnabled = TRUE
    /\ uploadStatus = "idle"
    /\ error = NoError
    /\ videoUrl = 0
    /\ mediaRecorderRef = 0
    /\ chunksRef = <<>>
    /\ timerRef = 0
    /\ audioContextRef = 0
    /\ pc = [s \in Sessions |-> "none"]
    /\ clickState = [s \in Sessions |-> [isRecording |-> FALSE, stream |-> NoStream, micEnabled |-> TRUE]]
    /\ effectStream = NoStream
    /\ tracks = [s \in Sessions |-> NoTracks]
    /\ recState = [s \in Sessions |-> "none"]
    /\ recStream = [s \in Sessions |-> "none"]
    /\ timers = {}
    /\ ctxState = [s \in Sessions |-> "none"]
    /\ endedPending = {}
    /\ previewTimer = [s \in Sessions |-> "none"]
    /\ uploadReq = [active |-> FALSE, videoUrl |-> 0]
    /\ stopCalls = [s \in Sessions |-> 0]
    /\ blobCount = [s \in Sessions |-> 0]
    /\ delivered = [s \in Sessions |-> <<>>]
    /\ capFired = {}
    /\ endedHandled = {}
    /\ micRequested = {}
    /\ micDenied = {}
    /\ ticksDone = 0
    /\ closeCalls = [s \in Sessions |-> 0]
    /\ uploadsSent = 0
    /\ errorHandled = {}
    /\ mimeType = [s \in Sessions |-> "none"]

\* a runtime that supports every candidate type
InitRecorder ==
    /\ isTypeSupported = [t \in MimeTypeSet |-> TRUE]
    /\ InitSession

InitQueue ==
    /\ uploadFiles = <<>>
    /\ nextFileId = 1
    /\ xhrInflight = [id \in FileIds |-> 0]
    /\ postsSent = [id \in FileIds |-> 0]

InitApi ==
    /\ records = [id \in RecIds |-> NoRecord]
    /\ chunkSets = [f \in FileRefs |-> NoChunks]
    /\ req = [r \in Requests |-> IdleRequest]
    /\ nextRecId = 1
    /\ nextFileRef = 1
    /\ deletedOk = {}

\* the list after the mount effect's fetchRecordings has answered
InitList ==
    /\ recordings = ListIds
    /\ serverIds = ListIds
    /\ deletingIds = {}
    /\ selectedIds = {}
    /\ fetches = {}
    /\ nextCall = 1
    /\ bulkCalls = {}
    /\ listFetch = NoListFetch
    /\ alertShown = NoAlert

Init == InitRecorder /\ InitQueue /\ InitApi /\ InitList

\* any runtime: every combination of isTypeSupported answers
InitCodec ==
    /\ isTypeSupported \in [MimeTypeSet -> BOOLEAN]
    /\ InitSession
    /\ InitQueue
    /\ InitApi
    /\ InitList

\* a store that holds one recording of `total` bytes, no request received
InitRange ==
    /\ InitRecorder
    /\ InitQueue
    /\ InitList
    /\ \E total \in RangeTotals :
        /\ records = [id \in RecIds |->
                IF id = 1
                THEN [exists |-> TRUE, fileId |-> 1, size |-> total,
                      duration |-> 0,
                      contentType |-> "video/webm"]
                ELSE NoRecord]
        /\ chunkSets = [f \in FileRefs |->
                IF f = 1 THEN [stored |-> TRUE, length |-> total] ELSE NoChunks]
    /\ req = [r \in Requests |-> IdleRequest]
    /\ nextRecId = 2
    /\ nextFileRef = 2
    /\ deletedOk = {}

\* ---------------------------------------------------------------- helpers
\* (C8) the NotFoundError branch repeats the NotAllowedError text
DisplayErrorMessageMerged(name) ==
    CASE name \in {"NotAllowedError", "NotFoundError"} ->
            "Failed to start recording. Please grant screen sharing permissions."
      [] name = "NotSupportedError" ->
            "Failed to start recording. Screen recording is not supported in this browser."
      [] OTHER -> "Failed to start recording. <error.message>"

DisplayErrorMessage(name) ==
    CASE name = "NotAllowedError" ->
            "Failed to start recording. Please grant screen sharing permissions."
      [] name = "NotFoundError" ->
            "Failed to start recording. No screen sharing source available."
      [] name = "NotSupportedError" ->
            "Failed to start recording. Screen recording is not supported in this browser."
      [] OTHER -> "Failed to start recording. <error.message>"

\* stopTimer: clearInterval(timerRef.current); timerRef.current = null
StopTimer ==
    IF timerRef # 0
    THEN /\ timers' = timers \ {timerRef}
         /\ timerRef' = 0
    ELSE UNCHANGED <<timers, timerRef>>

\* if (audioContextRef.current) { close(); audioContextRef.current = null }
CloseAudioContext ==
    IF audioContextRef # 0
    THEN /\ ctxState' = [ctxState EXCEPT ![audioContextRef] = "closed"]
         /\ closeCalls' = [closeCalls EXCEPT ![audioContextRef] = @ + 1]
         /\ audioContextRef' = 0
    ELSE UNCHANGED <<ctxState, closeCalls, audioContextRef>>

\* stopRecording, run by a closure whose render saw `snap`.  MediaRecorder
\* .stop() on a recorder that is no longer recording either throws
\* InvalidStateError (then the rest of the handler is skipped) or does
\* nothing, depending on the browser: `throws`.
\* `rs` is the state of the recorders when the closure runs.
StopRecordingWith(rs, snap, throws) ==
    IF mediaRecorderRef # 0 /\ snap.isRecording
    THEN LET r == mediaRecorderRef
             active == rs[r] = "recording" IN
         /\ stopCalls' = [stopCalls EXCEPT ![r] = @ + 1]
         /\ recState' = IF active THEN [rs EXCEPT ![r] = "stopping"]
                        ELSE rs
         /\ IF ~active /\ throws
            THEN UNCHANGED <<tracks, stream, timerRef, timers,
                             audioContextRef, ctxState, closeCalls>>
            ELSE /\ tracks' = StopTracksOf(tracks, snap.stream)
                 /\ stream' = NoStream
                 /\ StopTimer
                 /\ CloseAudioContext
    ELSE /\ recState' = rs
         /\ UNCHANGED <<stopCalls, tracks, stream, timerRef, timers,
                        audioContextRef, ctxState, closeCalls>>

StopRecording(snap, throws) == StopRecordingWith(recState, snap, throws)

\* the cleanup of useEffect(..., [videoUrl]) followed by the new effect:
\* runs when videoUrl changes, with the state of the render that set it up
EffectCleanup ==
    /\ StopTimer
    /\ tracks' = StopTracksOf(tracks, effectStream)
    /\ IF audioContextRef # 0
       THEN /\ ctxState' = [ctxState EXCEPT ![audioContextRef] = "closed"]
            /\ closeCalls' = [closeCalls EXCEPT ![audioContextRef] = @ + 1]
       ELSE UNCHANGED <<ctxState, closeCalls>>
    /\ UNCHANGED audioContextRef
    /\ effectStream' = stream

\* (C24) the selection that tries vp8 before vp9
SelectMimeTypeVp8First(supported) ==
    IF supported[Vp8Opus] THEN Vp8Opus
    ELSE IF supported[Vp9Opus] THEN Vp9Opus
    ELSE PlainWebm

\* "Determine best codec": vp9, else vp8, else plain webm without a probe
SelectMimeType(supported) ==
    IF supported[Vp9Opus] THEN Vp9Opus
    ELSE IF supported[Vp8Opus] THEN Vp8Opus
    ELSE PlainWebm

\* the synchronous tail of startRecording, from codec selection on:
\* new MediaRecorder, handlers, start(1000), setState, startTimer, onended
\* new MediaRecorder throws NotSupportedError for a type the runtime does
\* not support
SetupRecorder(s, kind, fails) ==
    /\ mimeType' = [mimeType EXCEPT ![s] = SelectMimeType(isTypeSupported)]
    /\ ~isTypeSupported[SelectMimeType(isTypeSupported)] => fails
    /\ IF fails
       THEN /\ pc' = [pc EXCEPT ![s] = "setupFailed"]
            /\ error' = DisplayErrorMessage("OtherError")
            /\ UNCHANGED <<chunksRef, mediaRecorderRef, recState, recStream,
                           isRecording, recordingTime, stream, recordedBlob,
                           timerRef, timers, ticksDone>>
       ELSE /\ pc' = [pc EXCEPT ![s] = "running"]
            /\ chunksRef' = <<>>
            /\ mediaRecorderRef' = s
            /\ recState' = [recState EXCEPT ![s] = "recording"]
            /\ recStream' = [recStream EXCEPT ![s] = kind]
            /\ isRecording' = TRUE
            /\ recordingTime' = 0
            /\ stream' = [sess |-> s, kind |-> kind]
            /\ recordedBlob' = NoBlob
            /\ timerRef' = s
            /\ timers' = timers \cup {s}
            /\ ticksDone' = 0

\* (C2) the cap compared with > instead of >=
AtCapOffByOne(t) == t > MaxRecordingSeconds

\* prev.recordingTime >= 180

AtCap(t) == t >= MaxRecordingSeconds

\* ---------------------------------------------------------------- actions
\* the Mic On / Mic Off button (disabled while recording)
ToggleMic ==
    /\ ~isRecording
    /\ micEnabled' = ~micEnabled
    /\ UNCHANGED <<isRecording, recordedBlob, recordingTime, stream,
                   uploadStatus, error, videoUrl>>
    /\ UNCHANGED <<refVars, closureVars, envVars, histVars>>

\* Start Recording clicked: startRecording up to await getDisplayMedia
StartClick(s) ==
    /\ ~isRecording
    /\ pc[s] = "none"
    /\ \A q \in Sessions : q < s => pc[q] # "none"
    /\ error' = NoError
    /\ pc' = [pc EXCEPT ![s] = "awaitDisplay"]
    /\ clickState' = [clickState EXCEPT ![s] =
            [isRecording |-> isRecording, stream |-> stream,
             micEnabled |-> micEnabled]]
    /\ UNCHANGED <<isRecording, recordedBlob, recordingTime, stream,
                   micEnabled, uploadStatus, videoUrl>>
    /\ UNCHANGED <<refVars, effectStream, envVars, histVars>>

\* getDisplayMedia rejected: the outer catch
DisplayReject(s, name) ==
    /\ pc[s] = "awaitDisplay"
    /\ pc' = [pc EXCEPT ![s] = "failed"]
    /\ error' = DisplayErrorMessage(name)
    /\ UNCHANGED <<isRecording, recordedBlob, recordingTime, stream,
                   micEnabled, uploadStatus, videoUrl>>
    /\ UNCHANGED <<refVars, clickState, effectStream, envVars, stopCalls,
                   blobCount, delivered, capFired, endedHandled, micRequested,
                   micDenied, closeCalls, uploadsSent, ticksDone>>

\* getDisplayMedia resolved; with the microphone enabled the function
\* awaits getUserMedia, otherwise it runs to its end
DisplayResolve(s, hasAudio, fails) ==
    /\ pc[s] = "awaitDisplay"
    /\ tracks' = [tracks EXCEPT ![s] =
            [@ EXCEPT !.video = "live",
                      !.audio = IF hasAudio THEN "live" ELSE "none"]]
    /\ IF clickState[s].micEnabled
       THEN /\ pc' = [pc EXCEPT ![s] = "awaitMic"]
            /\ micRequested' = micRequested \cup {s}
            /\ UNCHANGED <<chunksRef, mediaRecorderRef, recState, recStream,
                           isRecording, recordingTime, stream, recordedBlob,
                           timerRef, timers, error, ticksDone, mimeType>>
       ELSE /\ SetupRecorder(s, "display", fails)
            /\ IF fails THEN TRUE ELSE UNCHANGED error
            /\ UNCHANGED micRequested
    /\ UNCHANGED <<micEnabled, uploadStatus, videoUrl, audioContextRef,
                   clickState, effectStream, ctxState, endedPending,
                   previewTimer, uploadReq, stopCalls, blobCount, delivered,
                   capFired, endedHandled, micDenied, closeCalls,
                   uploadsSent>>

\* getUserMedia resolved: AudioContext, mixing graph, mixed stream
MicResolve(s, fails) ==
    /\ pc[s] = "awaitMic"
    /\ tracks' = [tracks EXCEPT ![s] = [@ EXCEPT !.mic = "live", !.dest = "live"]]
    /\ audioContextRef' = s
    /\ ctxState' = [ctxState EXCEPT ![s] = "open"]
    /\ SetupRecorder(s, "mixed", fails)
    /\ IF fails THEN TRUE ELSE UNCHANGED error
    /\ UNCHANGED <<micEnabled, uploadStatus, videoUrl, clickState,
                   effectStream, endedPending, previewTimer, uploadReq,
                   stopCalls, blobCount, delivered, capFired, endedHandled,
                   micRequested, micDenied, closeCalls,
                   uploadsSent>>

\* (C7) without the inner try/catch the rejection reaches the outer catch
MicRejectFatal(s, fails) ==
    /\ pc[s] = "awaitMic"
    /\ pc' = [pc EXCEPT ![s] = "failed"]
    /\ error' = DisplayErrorMessage("NotAllowedError")
    /\ micDenied' = micDenied \cup {s}
    /\ UNCHANGED <<isRecording, recordedBlob, recordingTime, stream,
                   micEnabled, uploadStatus, videoUrl>>
    /\ UNCHANGED <<refVars, clickState, effectStream, envVars, stopCalls,
                   blobCount, delivered, capFired, endedHandled, micRequested, closeCalls, uploadsSent, ticksDone,
                   mimeType>>

\* getUserMedia rejected: the inner catch, then on with the display stream
MicReject(s, fails) ==
    /\ pc[s] = "awaitMic"
    /\ SetupRecorder(s, "display", fails)
    /\ IF fails THEN TRUE ELSE error' = MicWarning
    /\ micDenied' = micDenied \cup {s}
    /\ UNCHANGED <<micEnabled, uploadStatus, videoUrl, audioContextRef,
                   clickState, effectStream, tracks, ctxState, endedPending,
                   previewTimer, uploadReq, stopCalls, blobCount, delivered,
                   capFired, endedHandled, micRequested,
                   closeCalls, uploadsSent>>

RECURSIVE SumLen(_, _)
SumLen(f, n) == IF n = 0 THEN 0 ELSE Len(f[n]) + SumLen(f, n - 1)

\* dataavailable events delivered so far, over all sessions
FragsDelivered == SumLen(delivered, NumSessions)

\* mediaRecorder.ondataavailable
DataAvailable(s, size) ==
    /\ recState[s] \in {"recording", "stopping"}
    /\ LET frag == [sess |-> s, seq |-> Len(delivered[s]) + 1, size |-> size] IN
       /\ delivered' = [delivered EXCEPT ![s] = Append(@, frag)]
       /\ chunksRef' = IF size > 0 THEN Append(chunksRef, frag) ELSE chunksRef
    /\ UNCHANGED <<stateVars, mediaRecorderRef, timerRef, audioContextRef,
                   closureVars, envVars, stopCalls, blobCount, capFired,
                   endedHandled, micRequested, micDenied, closeCalls,
                   uploadsSent, ticksDone>>

\* mediaRecorder.onstop
OnStop(s) ==
    /\ recState[s] = "stopping"
    /\ recState' = [recState EXCEPT ![s] = "inactive"]
    /\ LET blob == NewBlob(chunksRef) IN
       /\ recordedBlob' = blob
       /\ isRecording' = FALSE
       /\ IF BlobSize(blob) > 0
          THEN /\ previewTimer' = [previewTimer EXCEPT ![s] = "first"]
               /\ UNCHANGED error
          ELSE /\ error' = EmptyCaptureError
               /\ UNCHANGED previewTimer
    /\ blobCount' = [blobCount EXCEPT ![s] = @ + 1]
    /\ StopTimer
    /\ CloseAudioContext
    /\ UNCHANGED <<recordingTime, stream, micEnabled, uploadStatus, videoUrl,
                   mediaRecorderRef, chunksRef, closureVars, tracks,
                   recStream, endedPending, uploadReq, stopCalls, delivered,
                   capFired, endedHandled, micRequested, micDenied, uploadsSent, ticksDone>>

\* Stop Recording clicked: stopRecording of the latest render
UserStop(throws) ==
    /\ isRecording
    /\ StopRecording(CurrentState, throws)
    /\ UNCHANGED <<isRecording, recordedBlob, recordingTime, micEnabled,
                   uploadStatus, error, videoUrl, mediaRecorderRef, chunksRef,
                   closureVars, recStream, endedPending, previewTimer,
                   uploadReq, blobCount, delivered, capFired, endedHandled,
                   micRequested, micDenied, uploadsSent,
                   ticksDone>>

\* the interval callback of startTimer, for the interval of session t
Tick(t, throws) ==
    /\ t \in timers
    /\ ticksDone' = ticksDone + 1
    /\ IF AtCap(recordingTime)
       THEN /\ StopRecording(MountState, throws)
            /\ capFired' = IF isRecording /\ mediaRecorderRef = t
                              /\ recState[t] = "recording"
                           THEN capFired \cup {t} ELSE capFired
            /\ UNCHANGED recordingTime
       ELSE /\ recordingTime' = recordingTime + 1
            /\ UNCHANGED <<stopCalls, recState, tracks, stream, timerRef,
                           timers, audioContextRef, ctxState, closeCalls,
                           capFired>>
    /\ UNCHANGED <<isRecording, recordedBlob, micEnabled, uploadStatus,
                   error, videoUrl, mediaRecorderRef, chunksRef, closureVars,
                   recStream, endedPending, previewTimer, uploadReq,
                   blobCount, delivered, endedHandled, micRequested,
                   micDenied, uploadsSent>>

\* the user ends the screen share from the browser: the display tracks end
\* and 'ended' is queued for the video track's handler, if one is attached
TrackEnd(s) ==
    /\ tracks[s].video = "live"
    /\ tracks' = [tracks EXCEPT ![s] =
            [@ EXCEPT !.video = "ended",
                      !.audio = IF @ = "live" THEN "ended" ELSE @]]
    /\ endedPending' = IF pc[s] = "running" THEN endedPending \cup {s}
                       ELSE endedPending
    /\ UNCHANGED <<stateVars, refVars, closureVars, recState, recStream,
                   timers, ctxState, previewTimer, uploadReq, histVars>>

\* finalStream.getVideoTracks()[0].onended: stopRecording of the render
\* in which Start was clicked
OnEnded(s, throws) ==
    /\ s \in endedPending
    /\ endedPending' = endedPending \ {s}
    /\ endedHandled' = endedHandled \cup {s}
    /\ StopRecording(clickState[s], throws)
    /\ UNCHANGED <<isRecording, recordedBlob, recordingTime, micEnabled,
                   uploadStatus, error, videoUrl, mediaRecorderRef, chunksRef,
                   closureVars, recStream, previewTimer, uploadReq,
                   blobCount, delivered, capFired, micRequested, micDenied, uploadsSent, ticksDone>>

\* the browser stops a recorder all of whose tracks have ended
RecorderInactivate(s) ==
    /\ recState[s] = "recording"
    /\ \A k \in StreamTracks(recStream[s]) : tracks[s][k] # "live"
    /\ recState' = [recState EXCEPT ![s] = "stopping"]
    /\ UNCHANGED <<stateVars, refVars, closureVars, tracks, recStream, timers,
                   ctxState, endedPending, previewTimer, uploadReq, histVars>>

\* the recorder of session s cannot go on encoding: the browser
\* inactivates it, fires 'error' and queues 'stop'.  mediaRecorder.onerror
\* runs with the stopRecording of the render in which Start was clicked.
OnError(s, throws) ==
    /\ recState[s] = "recording"
    /\ error' = RecordingFailed
    /\ errorHandled' = errorHandled \cup {s}
    /\ StopRecordingWith([recState EXCEPT ![s] = "stopping"],
                         clickState[s], throws)
    /\ UNCHANGED <<isRecording, recordedBlob, recordingTime, micEnabled,
                   uploadStatus, videoUrl, mediaRecorderRef, chunksRef,
                   closureVars, recStream, endedPending, previewTimer,
                   uploadReq, blobCount, delivered, capFired, endedHandled,
                   micRequested, micDenied, uploadsSent, ticksDone>>

\* the 100 ms timeout of onstop (and its 500 ms retry): the preview URL
PreviewTimeout(s) ==
    /\ previewTimer[s] \in {"first", "retry"}
    /\ IF ~recordedBlob.isNull
       THEN \* videoRef.current is set: the <video> of the preview card
            /\ videoUrl' = s
            /\ error' = IF previewTimer[s] = "retry" THEN NoError ELSE error
            /\ previewTimer' = [previewTimer EXCEPT ![s] = "none"]
            /\ EffectCleanup
       ELSE /\ IF previewTimer[s] = "first"
               THEN /\ previewTimer' = [previewTimer EXCEPT ![s] = "retry"]
                    /\ UNCHANGED error
               ELSE /\ previewTimer' = [previewTimer EXCEPT ![s] = "none"]
                    /\ error' = PreviewUnavailable
            /\ UNCHANGED <<videoUrl, timerRef, timers, tracks, ctxState,
                           closeCalls, audioContextRef, effectStream>>
    /\ UNCHANGED <<isRecording, recordedBlob, recordingTime, stream,
                   micEnabled, uploadStatus, mediaRecorderRef, chunksRef,
                   pc, clickState, recState, recStream, endedPending,
                   uploadReq, stopCalls, blobCount, delivered, capFired,
                   endedHandled, micRequested, micDenied, uploadsSent, ticksDone>>

\* Upload to Server clicked: uploadRecording up to await fetch
UploadClick ==
    /\ ~recordedBlob.isNull
    /\ uploadStatus # "uploading"
    /\ uploadStatus' = "uploading"
    /\ error' = NoError
    /\ uploadReq' = [active |-> TRUE, videoUrl |-> videoUrl]
    /\ uploadsSent' = uploadsSent + 1
    /\ UNCHANGED <<isRecording, recordedBlob, recordingTime, stream,
                   micEnabled, videoUrl>>
    /\ UNCHANGED <<refVars, closureVars, tracks, recState, recStream, timers,
                   ctxState, endedPending, previewTimer, stopCalls, blobCount,
                   delivered, capFired, endedHandled, micRequested,
                   micDenied, closeCalls, ticksDone>>

\* fetch settled: response.ok, or a failure (non-ok response, network error)
UploadResponse(ok) ==
    /\ uploadReq.active
    /\ uploadReq' = [active |-> FALSE, videoUrl |-> 0]
    /\ IF ok
       THEN /\ uploadStatus' = "success"
            /\ recordedBlob' = NoBlob
            /\ recordingTime' = 0
            /\ UNCHANGED error
            /\ IF uploadReq.videoUrl # 0
               THEN /\ videoUrl' = 0
                    /\ IF videoUrl # 0
                       THEN EffectCleanup
                       ELSE UNCHANGED <<timerRef, timers, tracks, ctxState,
                                        closeCalls, audioContextRef,
                                        effectStream>>
               ELSE UNCHANGED <<videoUrl, timerRef, timers, tracks, ctxState,
                                closeCalls, audioContextRef, effectStream>>
       ELSE /\ uploadStatus' = "error"
            /\ error' = UploadFailed
            /\ UNCHANGED <<recordedBlob, recordingTime, videoUrl, timerRef,
                           timers, tracks, ctxState, closeCalls,
                           audioContextRef, effectStream>>
    /\ UNCHANGED <<isRecording, stream, micEnabled, mediaRecorderRef,
                   chunksRef, pc, clickState, recState, recStream,
                   endedPending, previewTimer, stopCalls, blobCount,
                   delivered, capFired, endedHandled, micRequested,
                   micDenied, uploadsSent, ticksDone>>

\* Stop clicks so far on the current recorder
StopClicks == IF mediaRecorderRef = 0 THEN 0 ELSE stopCalls[mediaRecorderRef]

\* the handlers and browser events of a capture session but the interval
\* callback, for sessions 1..b.sessions and within the budgets b
SessionNext(b) ==
    \/ ToggleMic /\ UNCHANGED besideRecorder
    \/ \E s \in 1..b.sessions : StartClick(s) /\ UNCHANGED besideRecorder
    \/ \E s \in 1..b.sessions, name \in ErrorNames :
            DisplayReject(s, name) /\ UNCHANGED besideRecorder
    \/ \E s \in 1..b.sessions, hasAudio \in BOOLEAN, fails \in BOOLEAN :
            DisplayResolve(s, hasAudio, fails) /\ UNCHANGED besideSetup
    \/ \E s \in 1..b.sessions, fails \in BOOLEAN :
            MicResolve(s, fails) /\ UNCHANGED besideSetup
    \/ \E s \in 1..b.sessions, fails \in BOOLEAN :
            MicReject(s, fails) /\ UNCHANGED besideSetup
    \/ \E s \in 1..b.sessions, size \in FragSizes :
            /\ FragsDelivered < b.frags
            /\ DataAvailable(s, size)
            /\ UNCHANGED besideRecorder
    \/ \E s \in 1..b.sessions : OnStop(s) /\ UNCHANGED besideRecorder
    \/ \E throws \in BOOLEAN :
            /\ StopClicks < b.stops
            /\ UserStop(throws)
            /\ UNCHANGED besideRecorder
    \/ \E s \in 1..b.sessions : TrackEnd(s) /\ UNCHANGED besideRecorder
    \/ \E s \in 1..b.sessions, throws \in BOOLEAN :
            OnEnded(s, throws) /\ UNCHANGED besideRecorder
    \/ \E s \in 1..b.sessions :
            RecorderInactivate(s) /\ UNCHANGED besideRecorder
    \/ \E s \in 1..b.sessions : PreviewTimeout(s) /\ UNCHANGED besideRecorder

\* the upload of the finished recording
UploadNext(b) ==
    \/ uploadsSent < b.uploads /\ UploadClick /\ UNCHANGED besideRecorder
    \/ \E ok \in BOOLEAN : UploadResponse(ok) /\ UNCHANGED besideRecorder

\* the interval callback, while guard holds
TickNext(guard) ==
    \E t \in Sessions, throws \in BOOLEAN :
        guard /\ Tick(t, throws) /\ UNCHANGED besideRecorder

Budget ==
    [sessions |-> MaxSessions, frags |-> MaxFrags, stops |-> MaxStopCalls,
     uploads |-> MaxUploads]

\* an encoder error in a session
ErrorNext(b) ==
    \E s \in 1..b.sessions, throws \in BOOLEAN :
        OnError(s, throws) /\ UNCHANGED <<queueVars, apiVars, listVars, codecVars>>

Next ==
    \/ SessionNext(Budget)
    \/ UploadNext(Budget)
    \/ TickNext(recordingTime < MaxTicks)
    \/ ErrorNext(Budget)

Spec == Init /\ [][Next]_vars

CapBudget ==
    [sessions |-> CapSessions, frags |-> CapFrags, stops |-> CapStopCalls,
     uploads |-> CapUploads]

NextCap ==
    \/ SessionNext(CapBudget)
    \/ UploadNext(CapBudget)
    \/ TickNext(ticksDone < CapTickCalls)

SpecCap == Init /\ [][NextCap]_vars

OverlapBudget ==
    [sessions |-> OverlapSessions, frags |-> OverlapFrags,
     stops |-> OverlapStopCalls]

NextOverlap ==
    \/ SessionNext(OverlapBudget)
    \/ TickNext(recordingTime < OverlapTicks)

SpecOverlap == Init /\ [][NextOverlap]_vars

AgainBudget ==
    [sessions |-> AgainSessions, frags |-> AgainFrags,
     stops |-> AgainStopCalls, uploads |-> AgainUploads]

\* the sessions in which every prompt is granted and the recorder is set
\* up, ended by the Stop button, with the upload of the recording
NextAgain ==
    \/ ToggleMic /\ UNCHANGED besideRecorder
    \/ \E s \in 1..AgainSessions : StartClick(s) /\ UNCHANGED besideRecorder
    \/ \E s \in 1..AgainSessions, hasAudio \in BOOLEAN :
            DisplayResolve(s, hasAudio, FALSE) /\ UNCHANGED besideSetup
    \/ \E s \in 1..AgainSessions :
            MicResolve(s, FALSE) /\ UNCHANGED besideSetup
    \/ \E s \in 1..AgainSessions, size \in FragSizes :
            /\ FragsDelivered < AgainFrags
            /\ DataAvailable(s, size)
            /\ UNCHANGED besideRecorder
    \/ \E s \in 1..AgainSessions : OnStop(s) /\ UNCHANGED besideRecorder
    \/ \E throws \in BOOLEAN :
            /\ StopClicks < AgainStopCalls
            /\ UserStop(throws)
            /\ UNCHANGED besideRecorder
    \/ \E s \in 1..AgainSessions :
            PreviewTimeout(s) /\ UNCHANGED besideRecorder
    \/ UploadNext(AgainBudget)
    \/ TickNext(recordingTime < AgainTicks)

SpecAgain == Init /\ [][NextAgain]_vars

\* SpecCodec: one capture session in any runtime
CodecBudget ==
    [sessions |-> CodecSessions, frags |-> CodecFrags,
     stops |-> CodecStopCalls]

NextCodec == SessionNext(CodecBudget)

SpecCodec == InitCodec /\ [][NextCodec]_vars

(***************************************************************************)
(* Part 2: the FileUpload React component (src/unnamed/part_001).          *)
(* uploadFile is synchronous up to xhr.send: the XMLHttpRequest listeners  *)
(* run later, as browser events, outside the try block of uploadFile.      *)
(* The try block itself may throw before the request is sent (`throws`).   *)
(***************************************************************************)
\* the files the user can pick: [type, size]
FileChoices ==
    { [type |-> "video/webm", size |-> 1],
      [type |-> "video/x-matroska", size |-> 1],
      [type |-> "image/png", size |-> 1],
      [type |-> "video/mp4", size |-> MaxFileSize + 1] }

\* file.type.startsWith("video/")
StartsWithVideo(type) == type \in {"video/webm", "video/mp4", "video/x-matroska"}

\* supportedFormats.some((format) => file.type.includes(format.split("/")[1]))
HasSupportedFormat(type) == type \in {"video/webm", "video/mp4"}

NoValidationError == "null"

validateFile(file) ==
    IF ~StartsWithVideo(file.type) THEN "Only video files are allowed"
    ELSE IF file.size > MaxFileSize THEN "File size must be less than 100MB"
    ELSE IF ~HasSupportedFormat(file.type)
         THEN "Unsupported video format. Please use WebM, MP4, AVI, or MOV files"
    ELSE NoValidationError

Undefined == "undefined"
ThrownMessage == "<error.message>"

\* { ...f, status: "uploading", progress: 0, error: undefined }
AsUploading(f) == [f EXCEPT !.status = "uploading", !.progress = 0, !.error = Undefined]

\* the catch of uploadFile
AsFailed(f) ==
    [f EXCEPT !.status = "error", !.error = ThrownMessage,
              !.retryCount = @ + 1]

\* { ...f, status: "success", progress: 100 }
AsSuccess(f) == [f EXCEPT !.status = "success", !.progress = 100]

\* prev.map((f) => (f.id === id ? { ...f, progress } : f))
WithProgress(files, id, progress) ==
    [i \in DOMAIN files |->
        IF files[i].id = id THEN [files[i] EXCEPT !.progress = progress]
        ELSE files[i]]

\* prev.map((f) => (f.id === id ? { ...f, status: "success", ... } : f))
WithSuccess(files, id) ==
    [i \in DOMAIN files |->
        IF files[i].id = id THEN AsSuccess(files[i]) ELSE files[i]]

\* the ids of the queue
QueueIds == {uploadFiles[i].id : i \in DOMAIN uploadFiles}

\* uploadFile called for each id of `targets`, the try block throwing for
\* those of `throwers`: the state updates, and the requests sent
UploadFiles(targets, throwers) ==
    /\ uploadFiles' =
            [i \in DOMAIN uploadFiles |->
                LET f == uploadFiles[i] IN
                IF f.id \notin targets THEN f
                ELSE IF f.id \in throwers THEN AsFailed(AsUploading(f))
                ELSE AsUploading(f)]
    /\ xhrInflight' = [id \in FileIds |->
            IF id \in targets \ throwers THEN xhrInflight[id] + 1
            ELSE xhrInflight[id]]
    /\ postsSent' = [id \in FileIds |->
            IF id \in targets \ throwers THEN postsSent[id] + 1
            ELSE postsSent[id]]

\* (C12) a fourth retry allowed
CanRetryOnceMore(f) == f.retryCount < 4

\* file.retryCount < 3, of the Retry button and of retryUpload
CanRetry(f) == f.retryCount < 3

\* file.error && file.retryCount >= 3, of uploadAll
SkippedByUploadAll(f) == f.error # Undefined /\ f.retryCount >= 3

\* addFiles: one or more files selected or dropped
AddFiles(files) ==
    /\ nextFileId + Len(files) - 1 <= MaxFileIds
    /\ IF Len(uploadFiles) + Len(files) > maxFiles
       THEN UNCHANGED <<uploadFiles, nextFileId>>
       ELSE /\ uploadFiles' = uploadFiles \o
                    [i \in DOMAIN files |->
                        LET err == validateFile(files[i]) IN
                        [id |-> nextFileId + i - 1,
                         file |-> files[i],
                         progress |-> 0,
                         status |-> IF err # NoValidationError
                                    THEN "error" ELSE "pending",
                         error |-> IF err # NoValidationError
                                   THEN err ELSE Undefined,
                         retryCount |-> 0]]
            /\ nextFileId' = nextFileId + Len(files)
    /\ UNCHANGED <<xhrInflight, postsSent>>

\* removeFile: the X button of a file
RemoveFile(id) ==
    /\ id \in QueueIds
    /\ uploadFiles' = SelectSeq(uploadFiles, LAMBDA f : f.id # id)
    /\ UNCHANGED <<nextFileId, xhrInflight, postsSent>>

\* the Upload button of a pending file
ClickUpload(i, throws) ==
    /\ i \in DOMAIN uploadFiles
    /\ uploadFiles[i].status = "pending"
    /\ UploadFiles({uploadFiles[i].id}, IF throws THEN {uploadFiles[i].id} ELSE {})
    /\ UNCHANGED nextFileId

\* the Retry button of a failed file, and retryUpload
ClickRetry(i, throws) ==
    /\ i \in DOMAIN uploadFiles
    /\ uploadFiles[i].status = "error"
    /\ CanRetry(uploadFiles[i])
    /\ IF CanRetry(uploadFiles[i])
       THEN UploadFiles({uploadFiles[i].id},
                        IF throws THEN {uploadFiles[i].id} ELSE {})
       ELSE UNCHANGED <<uploadFiles, xhrInflight, postsSent>>
    /\ UNCHANGED nextFileId

\* files with status pending or error
PendingIds ==
    {uploadFiles[i].id : i \in {j \in DOMAIN uploadFiles :
        uploadFiles[j].status \in {"pending", "error"}}}

\* the files uploadAll does not skip
UploadAllTargets ==
    {uploadFiles[i].id : i \in {j \in DOMAIN uploadFiles :
        /\ uploadFiles[j].status \in {"pending", "error"}
        /\ ~SkippedByUploadAll(uploadFiles[j])}}

\* the Upload All button (shown with a pending file, disabled while a file
\* is uploading), and uploadAll
UploadAll(throwers) ==
    /\ PendingIds # {}
    /\ \A i \in DOMAIN uploadFiles : uploadFiles[i].status # "uploading"
    /\ throwers \subseteq UploadAllTargets
    /\ UploadFiles(UploadAllTargets, throwers)
    /\ UNCHANGED nextFileId

\* xhr.upload 'progress' with lengthComputable
XhrProgress(id, progress) ==
    /\ xhrInflight[id] > 0
    /\ uploadFiles' = WithProgress(uploadFiles, id, progress)
    /\ UNCHANGED <<nextFileId, xhrInflight, postsSent>>

\* xhr 'load': with status 200 the file succeeds; otherwise the listener
\* throws, outside any try block
XhrLoad(id, status) ==
    /\ xhrInflight[id] > 0
    /\ xhrInflight' = [xhrInflight EXCEPT ![id] = @ - 1]
    /\ uploadFiles' = IF status = 200
                      THEN WithSuccess(uploadFiles, id)
                      ELSE uploadFiles
    /\ UNCHANGED <<nextFileId, postsSent>>

\* xhr 'error': the listener throws, outside any try block
XhrError(id) ==
    /\ xhrInflight[id] > 0
    /\ xhrInflight' = [xhrInflight EXCEPT ![id] = @ - 1]
    /\ UNCHANGED <<uploadFiles, nextFileId, postsSent>>

\* xhr 'timeout': the listener throws, outside any try block
XhrTimeout(id) ==
    /\ xhrInflight[id] > 0
    /\ xhrInflight' = [xhrInflight EXCEPT ![id] = @ - 1]
    /\ UNCHANGED <<uploadFiles, nextFileId, postsSent>>

clearCompleted ==
    /\ \E i \in DOMAIN uploadFiles : uploadFiles[i].status = "success"
    /\ uploadFiles' = SelectSeq(uploadFiles, LAMBDA f : f.status # "success")
    /\ UNCHANGED <<nextFileId, xhrInflight, postsSent>>

clearAll ==
    /\ Len(uploadFiles) > 0
    /\ uploadFiles' = <<>>
    /\ UNCHANGED <<nextFileId, xhrInflight, postsSent>>

\* the lists of files of one selection
Selections ==
    {<<f>> : f \in FileChoices} \cup
    {<<f, g>> : f \in {[type |-> "video/webm", size |-> 1]}, g \in FileChoices}

NextQueue ==
    \/ \E files \in Selections : AddFiles(files) /\ UNCHANGED besideQueue
    \/ \E id \in FileIds : RemoveFile(id) /\ UNCHANGED besideQueue
    \/ \E i \in 1..MaxFileIds, throws \in BOOLEAN :
            ClickUpload(i, throws) /\ UNCHANGED besideQueue
    \/ \E i \in 1..MaxFileIds, throws \in BOOLEAN :
            ClickRetry(i, throws) /\ UNCHANGED besideQueue
    \/ \E throwers \in SUBSET FileIds :
            UploadAll(throwers) /\ UNCHANGED besideQueue
    \/ \E id \in FileIds, progress \in ProgressValues :
            XhrProgress(id, progress) /\ UNCHANGED besideQueue
    \/ \E id \in FileIds, status \in HttpStatuses :
            XhrLoad(id, status) /\ UNCHANGED besideQueue
    \/ \E id \in FileIds : XhrError(id) /\ UNCHANGED besideQueue
    \/ \E id \in FileIds : XhrTimeout(id) /\ UNCHANGED besideQueue
    \/ clearCompleted /\ UNCHANGED besideQueue
    \/ clearAll /\ UNCHANGED besideQueue

SpecQueue == Init /\ [][NextQueue]_vars

\* the browser ends every request that was sent: one of 'load', 'error' and
\* 'timeout' fires for it
XhrSettles(id) ==
    /\ \/ \E status \in HttpStatuses : XhrLoad(id, status)
       \/ XhrError(id)
       \/ XhrTimeout(id)
    /\ UNCHANGED besideQueue

SpecQueueLive ==
    /\ Init /\ [][NextQueue]_vars
    /\ \A id \in FileIds : WF_vars(XhrSettles(id))

(***************************************************************************)
(* Part 3: the HTTP API (src/app/api/recordings/route.ts).  A request      *)
(* handler is a sequence of steps separated by its awaits on the database  *)
(* and on GridFS; handlers of different requests interleave at the awaits. *)
(* The writes to the stores (GridFS upload, save, GridFS delete, record    *)
(* delete) can fail; the lookups answer.                                   *)
(***************************************************************************)
\* ---- the Range header: a string over the characters "0" "1" "2" "-"
\* "x", with "B" for the substring "bytes="
Digits == {"0", "1", "2", "8"}
RangeChars == {"0", "1", "2", "B", "-", "x"}

DigitValue(c) ==
    CASE c = "0" -> 0 [] c = "1" -> 1 [] c = "2" -> 2 [] c = "8" -> 8

\* range.replace(/bytes=/, ""): the first occurrence removed
RECURSIVE RemoveBytes(_)
RemoveBytes(str) ==
    IF str = <<>> THEN <<>>
    ELSE IF Head(str) = "B" THEN Tail(str)
    ELSE <<Head(str)>> \o RemoveBytes(Tail(str))

\* str.split("-")
RECURSIVE SplitDash(_, _)
SplitDash(str, cur) ==
    IF str = <<>> THEN <<cur>>
    ELSE IF Head(str) = "-" THEN <<cur>> \o SplitDash(Tail(str), <<>>)
    ELSE SplitDash(Tail(str), Append(cur, Head(str)))

\* Number.parseInt(str, 10): the value of the leading digits, NaN without
RECURSIVE ParseDigits(_, _)
ParseDigits(str, acc) ==
    IF str = <<>> \/ Head(str) \notin Digits THEN acc
    ELSE ParseDigits(Tail(str), 10 * acc + DigitValue(Head(str)))

ParseUnsigned(str) ==
    IF str = <<>> \/ Head(str) \notin Digits THEN NaN
    ELSE ParseDigits(str, 0)

\* a leading "-" negates
ParseInt(str) ==
    IF str # <<>> /\ Head(str) = "-"
    THEN LET n == ParseUnsigned(Tail(str)) IN IF n = NaN THEN NaN ELSE 0 - n
    ELSE ParseUnsigned(str)

\* a + b and a - b of JavaScript numbers
NumAdd(a, b) == IF a = NaN \/ b = NaN THEN NaN ELSE a + b
NumSub(a, b) == IF a = NaN \/ b = NaN THEN NaN ELSE a - b

\* (C18) the download stream opened with end instead of end + 1
StreamEndInclusive(end) == end

\* the `end` option of openDownloadStream: end + 1
StreamEnd(end) == NumAdd(end, 1)

\* the range branch of GET: status, headers and download-stream options
RangeResponse(range, length) ==
    LET parts == SplitDash(RemoveBytes(range), <<>>)
        start == ParseInt(parts[1])
        end == IF Len(parts) >= 2 /\ parts[2] # <<>>
               THEN ParseInt(parts[2]) ELSE length - 1
        chunksize == NumAdd(NumSub(end, start), 1)
    IN [status |-> 206,
        contentRange |-> [start |-> start, end |-> end, total |-> length],
        contentLength |-> chunksize,
        streamStart |-> start,
        streamEnd |-> StreamEnd(end)]

\* the full-file branch of GET
FullResponse(length) ==
    [status |-> 200,
     contentRange |-> [start |-> NaN, end |-> NaN, total |-> NaN],
     contentLength |-> length,
     streamStart |-> 0,
     streamEnd |-> length]

\* the number of bytes GridFS streams for the options {start, end} of a
\* file of `length` bytes: the bytes start..end-1; options outside the
\* file make the stream fail (NaN)
StreamedBytes(length, start, end) ==
    IF start = NaN \/ end = NaN \/ start < 0 \/ end > length \/ start > end
    THEN NaN
    ELSE end - start

\* ---- the stores
\* ObjectId.isValid(id): the id parameter 0 stands for a malformed id
ObjectIdIsValid(id) == id # 0

\* Recording.findById(id)
FindById(id) == IF id \in RecIds THEN records[id] ELSE NoRecord

\* the ids of the stored records, newest first
RECURSIVE RecordsDesc(_)
RecordsDesc(n) ==
    IF n = 0 THEN <<>>
    ELSE (IF records[n].exists THEN <<n>> ELSE <<>>) \o RecordsDesc(n - 1)

\* ---- the entry "recording" of the form data of a POST
StringEntry == [kind |-> "string", type |-> "none", size |-> 0]
FileEntry(type, size) == [kind |-> "file", type |-> type, size |-> size]

PostSizes == {1, MaxSize, MaxSize + 1}
PostEntries ==
    {NullEntry, StringEntry, FileEntry("image/png", 1)} \cup
    {FileEntry("video/webm", size) : size \in PostSizes}

\* the form field "duration" of a POST, as the string sent (<<>>: not sent)
DurationFields ==
    {<<>>, <<"x">>, <<"0">>, <<"1", "8", "0">>, <<"1", "8", "1">>, <<"-", "1">>}
\* the durations sent in SpecApi
ApiDurations == {<<"1">>}

\* file.type.startsWith("video/")
TypeIsVideo(type) == type \in {"video/webm"}

\* duration || 0
OrZero(n) == IF n = NaN \/ n = 0 THEN 0 ELSE n

\* (C22) the schema without the bounds of duration
SchemaValidNoBounds(doc) == doc.size >= 0 /\ TypeIsVideo(doc.contentType)

\* the validators of RecordingSchema that save() runs: size min 0,
\* duration min 0 and max 180, contentType beginning with "video/"
SchemaValid(doc) ==
    /\ doc.size >= 0
    /\ doc.duration >= 0 /\ doc.duration <= 180
    /\ TypeIsVideo(doc.contentType)

\* (C17) the size check with >= instead of >
TooLargeInclusive(size) == size >= MaxSize

\* file.size > maxSize
TooLarge(size) == size > MaxSize

\* the handler of request r returns `resp`
Respond(r, resp, at) ==
    [req[r] EXCEPT !.pc = "done", !.resp = resp, !.failedAt = at,
                   !.entry = NullEntry, !.fileId = 0]

\* a request can be received in slot r
Free(r) == req[r].pc \in {"idle", "done"}

\* POST /api/recordings up to the GridFS upload
PostStart(r, entry, durationField) ==
    /\ Free(r)
    /\ LET q == [IdleRequest EXCEPT !.kind = "POST", !.entry = entry,
                                    !.duration = ParseInt(durationField)] IN
       req' = [req EXCEPT ![r] =
            IF entry.kind = "null"
            THEN [q EXCEPT !.pc = "done", !.resp = JsonResponse(400),
                           !.entry = NullEntry]
            ELSE IF entry.kind = "string"
            THEN \* file.type is undefined: TypeError, caught
                 [q EXCEPT !.pc = "done", !.resp = JsonResponse(500),
                           !.failedAt = "validate", !.entry = NullEntry]
            ELSE IF ~TypeIsVideo(entry.type)
            THEN [q EXCEPT !.pc = "done", !.resp = JsonResponse(400),
                           !.entry = NullEntry]
            ELSE IF TooLarge(entry.size)
            THEN [q EXCEPT !.pc = "done", !.resp = JsonResponse(400),
                           !.entry = NullEntry]
            ELSE [q EXCEPT !.pc = "upload"]]
    /\ UNCHANGED <<records, chunkSets, nextRecId, nextFileRef, deletedOk>>

\* the GridFS upload stream finishes, or fails
PostUploadEnd(r, ok) ==
    /\ req[r].kind = "POST" /\ req[r].pc = "upload"
    /\ IF ok
       THEN /\ chunkSets' = [chunkSets EXCEPT ![nextFileRef] =
                    [stored |-> TRUE, length |-> req[r].entry.size]]
            /\ nextFileRef' = nextFileRef + 1
            /\ req' = [req EXCEPT ![r] =
                    [@ EXCEPT !.pc = "save", !.fileId = nextFileRef]]
       ELSE /\ req' = [req EXCEPT ![r] = Respond(r, JsonResponse(500), "upload")]
            /\ UNCHANGED <<chunkSets, nextFileRef>>
    /\ UNCHANGED <<records, nextRecId, deletedOk>>

\* new Recording({...}) of the request r
NewRecording(r) ==
    [exists |-> TRUE, fileId |-> req[r].fileId, size |-> req[r].entry.size,
     duration |-> OrZero(req[r].duration),
     contentType |-> req[r].entry.type]

\* recording.save() succeeds, or fails (validation, database)
PostSaveEnd(r, ok) ==
    /\ req[r].kind = "POST" /\ req[r].pc = "save"
    /\ ok => SchemaValid(NewRecording(r))
    /\ IF ok
       THEN /\ records' = [records EXCEPT ![nextRecId] = NewRecording(r)]
            /\ nextRecId' = nextRecId + 1
            /\ req' = [req EXCEPT ![r] =
                    [Respond(r, JsonResponse(200), "none") EXCEPT !.id = nextRecId]]
       ELSE /\ req' = [req EXCEPT ![r] = Respond(r, JsonResponse(500), "save")]
            /\ UNCHANGED <<records, nextRecId>>
    /\ UNCHANGED <<chunkSets, nextFileRef, deletedOk>>

\* GET /api/recordings
GetList(r) ==
    /\ Free(r)
    /\ req' = [req EXCEPT ![r] =
            [IdleRequest EXCEPT !.kind = "LIST", !.pc = "done",
                                !.resp = JsonResponse(200),
                                !.list = RecordsDesc(MaxStored)]]
    /\ UNCHANGED <<records, chunkSets, nextRecId, nextFileRef, deletedOk>>

\* GET /api/recordings/[id] up to the lookup of the file in GridFS
GetStart(r, id, range) ==
    /\ Free(r)
    /\ LET q == [IdleRequest EXCEPT !.kind = "GET", !.id = id, !.range = range,
                                    !.late = id \in deletedOk] IN
       req' = [req EXCEPT ![r] =
            IF ~ObjectIdIsValid(id)
            THEN [q EXCEPT !.pc = "done", !.resp = JsonResponse(400),
                           !.entry = NullEntry]
            ELSE IF ~FindById(id).exists
            THEN [q EXCEPT !.pc = "done", !.resp = JsonResponse(404)]
            ELSE [q EXCEPT !.pc = "findFile", !.fileId = FindById(id).fileId]]
    /\ UNCHANGED <<records, chunkSets, nextRecId, nextFileRef, deletedOk>>

\* bucket.find({ _id: recording.fileId }), and the response
GetFindFile(r) ==
    /\ req[r].kind = "GET" /\ req[r].pc = "findFile"
    /\ LET file == chunkSets[req[r].fileId] IN
       req' = [req EXCEPT ![r] =
            IF ~file.stored
            THEN Respond(r, JsonResponse(404), "none")
            ELSE IF req[r].range # NoRange /\ req[r].range # <<>>
            THEN Respond(r, RangeResponse(req[r].range, file.length), "none")
            ELSE Respond(r, FullResponse(file.length), "none")]
    /\ UNCHANGED <<records, chunkSets, nextRecId, nextFileRef, deletedOk>>

\* DELETE /api/recordings/[id] up to bucket.delete
DeleteStart(r, id) ==
    /\ Free(r)
    /\ LET q == [IdleRequest EXCEPT !.kind = "DELETE", !.id = id,
                                    !.late = id \in deletedOk] IN
       req' = [req EXCEPT ![r] =
            IF ~ObjectIdIsValid(id)
            THEN [q EXCEPT !.pc = "done", !.resp = JsonResponse(400),
                           !.entry = NullEntry]
            ELSE IF ~FindById(id).exists
            THEN [q EXCEPT !.pc = "done", !.resp = JsonResponse(404)]
            ELSE [q EXCEPT !.pc = "delChunks", !.fileId = FindById(id).fileId]]
    /\ UNCHANGED <<records, chunkSets, nextRecId, nextFileRef, deletedOk>>

ChunkOutcomes == {"ok", "failed", "failedPartly"}

\* (C15) a failed bucket.delete swallowed: the handler goes on
DeleteChunksLenient(r, outcome) ==
    /\ req[r].kind = "DELETE" /\ req[r].pc = "delChunks"
    /\ chunkSets' = IF outcome = "failed" THEN chunkSets
                    ELSE [chunkSets EXCEPT ![req[r].fileId] = NoChunks]
    /\ req' = [req EXCEPT ![r] = [@ EXCEPT !.pc = "delRecord"]]
    /\ UNCHANGED <<records, nextRecId, nextFileRef, deletedOk>>

\* await bucket.delete(recording.fileId): it throws for a file that is
\* not in the bucket, and when the store fails, with the file's documents
\* left in place or removed in part
DeleteChunks(r, outcome) ==
    /\ req[r].kind = "DELETE" /\ req[r].pc = "delChunks"
    /\ LET f == req[r].fileId IN
       IF ~chunkSets[f].stored
       THEN /\ req' = [req EXCEPT ![r] = Respond(r, JsonResponse(500), "noFile")]
            /\ UNCHANGED chunkSets
       ELSE IF outcome = "ok"
       THEN /\ chunkSets' = [chunkSets EXCEPT ![f] = NoChunks]
            /\ req' = [req EXCEPT ![r] = [@ EXCEPT !.pc = "delRecord"]]
       ELSE /\ chunkSets' = IF outcome = "failed" THEN chunkSets
                            ELSE [chunkSets EXCEPT ![f] = NoChunks]
            /\ req' = [req EXCEPT ![r] = Respond(r, JsonResponse(500), "delChunks")]
    /\ UNCHANGED <<records, nextRecId, nextFileRef, deletedOk>>

\* (C16) findByIdAndDelete that leaves the record in place
RemoveRecordNot(recs, id) == recs

\* the record of id removed from the collection
RemoveRecord(recs, id) == [recs EXCEPT ![id] = NoRecord]

\* await Recording.findByIdAndDelete(id): the pre("findOneAndDelete") hook
\* deletes the GridFS file of the document it finds, ignoring a failure,
\* then the document is deleted, or the deletion fails
DeleteRecord(r, ok) ==
    /\ req[r].kind = "DELETE" /\ req[r].pc = "delRecord"
    /\ LET id == req[r].id
           doc == records[id] IN
       /\ chunkSets' = IF doc.exists
                       THEN [chunkSets EXCEPT ![doc.fileId] = NoChunks]
                       ELSE chunkSets
       /\ IF ok
          THEN /\ records' = RemoveRecord(records, id)
               /\ req' = [req EXCEPT ![r] = Respond(r, JsonResponse(200), "none")]
               /\ deletedOk' = deletedOk \cup {id}
          ELSE /\ req' = [req EXCEPT ![r] = Respond(r, JsonResponse(500), "delRecord")]
               /\ UNCHANGED <<records, deletedOk>>
    /\ UNCHANGED <<nextRecId, nextFileRef>>

\* the Range headers of the requests of SpecApi
ApiRanges == {NoRange, <<"B", "0", "-", "0">>}

IdParams == 0..MaxStored

\* the Range headers of the requests of SpecRange
RangeHeaders == UNION {[1..n -> RangeChars] : n \in 0..MaxRangeLen}

NextRange ==
    \/ /\ req[1].pc = "idle"
       /\ \E id \in IdParams, range \in RangeHeaders \cup {NoRange} :
               GetStart(1, id, range)
       /\ UNCHANGED besideApi
    \/ GetFindFile(1) /\ UNCHANGED besideApi

SpecRange == InitRange /\ [][NextRange]_vars

NextApi ==
    \/ \E r \in Requests, entry \in PostEntries, d \in ApiDurations :
            PostStart(r, entry, d) /\ UNCHANGED besideApi
    \/ \E r \in Requests, ok \in BOOLEAN :
            /\ ok => nextFileRef <= MaxStored
            /\ PostUploadEnd(r, ok)
            /\ UNCHANGED besideApi
    \/ \E r \in Requests, ok \in BOOLEAN :
            PostSaveEnd(r, ok) /\ UNCHANGED besideApi
    \/ \E r \in Requests : GetList(r) /\ UNCHANGED besideApi
    \/ \E r \in Requests, id \in IdParams, range \in ApiRanges :
            GetStart(r, id, range) /\ UNCHANGED besideApi
    \/ \E r \in Requests : GetFindFile(r) /\ UNCHANGED besideApi
    \/ \E r \in Requests, id \in IdParams :
            DeleteStart(r, id) /\ UNCHANGED besideApi
    \/ \E r \in Requests, outcome \in ChunkOutcomes :
            DeleteChunks(r, outcome) /\ UNCHANGED besideApi
    \/ \E r \in Requests, ok \in BOOLEAN :
            DeleteRecord(r, ok) /\ UNCHANGED besideApi

SpecApi == Init /\ [][NextApi]_vars

\* POST requests alone, with every duration field
NextPost ==
    \/ \E r \in Requests, entry \in PostEntries, d \in DurationFields :
            PostStart(r, entry, d) /\ UNCHANGED besideApi
    \/ \E r \in Requests, ok \in BOOLEAN :
            /\ ok => nextFileRef <= MaxStored
            /\ PostUploadEnd(r, ok)
            /\ UNCHANGED besideApi
    \/ \E r \in Requests, ok \in BOOLEAN :
            PostSaveEnd(r, ok) /\ UNCHANGED besideApi

SpecPost == Init /\ [][NextPost]_vars

\* DELETE requests alone, on a store that holds one recording and does
\* not fail
NextDelete ==
    \/ \E r \in Requests, id \in IdParams :
            DeleteStart(r, id) /\ UNCHANGED besideApi
    \/ \E r \in Requests : DeleteChunks(r, "ok") /\ UNCHANGED besideApi
    \/ \E r \in Requests : DeleteRecord(r, TRUE) /\ UNCHANGED besideApi

SpecDelete == InitRange /\ [][NextDelete]_vars

(***************************************************************************)
(* Part 4: the RecordingsList React component                              *)
(* (src/components/recordings-list.tsx).  A DELETE request is in flight    *)
(* from the fetch call of a handler until the handler's continuation runs; *)
(* in between the server answers it, or the network rejects it.  The       *)
(* server is the set of ids it holds: an ok answer to a DELETE removes the *)
(* id, and the answer to GET /api/recordings is that set.  The search box, *)
(* the sort order and playingId are left out: no filter is applied.        *)
(***************************************************************************)
FetchOutcomes == {"ok", "notOk", "rejected"}

Fetch(call, id, bulk) ==
    [call |-> call, id |-> id, bulk |-> bulk, outcome |-> "pending"]

\* fetch(`/api/recordings/${id}`, { method: "DELETE" }) for each id of ids,
\* numbered from `first`
RECURSIVE FetchesFor(_, _, _)
FetchesFor(ids, first, bulk) ==
    IF ids = {} THEN {}
    ELSE LET id == CHOOSE x \in ids : \A y \in ids : x <= y
         IN  {Fetch(first, id, bulk)}
                \cup FetchesFor(ids \ {id}, first + 1, bulk)

\* the server handles a DELETE: 200 only for an id it holds, which it then
\* no longer holds; otherwise 404 or 500, or the connection fails
ServerDelete(f, outcome) ==
    /\ f \in fetches
    /\ f.outcome = "pending"
    /\ outcome = "ok" => f.id \in serverIds
    /\ fetches' = (fetches \ {f}) \cup {[f EXCEPT !.outcome = outcome]}
    /\ serverIds' = IF outcome = "ok" THEN serverIds \ {f.id} ELSE serverIds
    /\ UNCHANGED <<recordings, deletingIds, selectedIds, nextCall,
                   bulkCalls, listFetch, alertShown>>

toggleSelectRecording(id) ==
    /\ id \in recordings
    /\ selectedIds' = IF id \in selectedIds
                      THEN selectedIds \ {id}
                      ELSE selectedIds \cup {id}
    /\ UNCHANGED <<recordings, deletingIds, fetches, nextCall, bulkCalls,
                   listFetch, alertShown, serverIds>>

toggleSelectAll ==
    /\ recordings # {}
    /\ selectedIds' = IF Cardinality(selectedIds) = Cardinality(recordings)
                      THEN {}
                      ELSE recordings
    /\ UNCHANGED <<recordings, deletingIds, fetches, nextCall, bulkCalls,
                   listFetch, alertShown, serverIds>>

\* deleteRecording up to its await: the Delete button of a listed recording,
\* enabled while the id is not in deletingIds; the user confirms
DeleteRecording(id) ==
    /\ id \in recordings
    /\ id \notin deletingIds
    /\ deletingIds' = deletingIds \cup {id}
    /\ fetches' = fetches \cup {Fetch(nextCall, id, FALSE)}
    /\ nextCall' = nextCall + 1
    /\ UNCHANGED <<recordings, selectedIds, bulkCalls, listFetch,
                   alertShown, serverIds>>

\* deleteRecording after its await
DeleteRecordingSettle(f) ==
    /\ f \in fetches
    /\ ~f.bulk
    /\ f.outcome # "pending"
    /\ fetches' = fetches \ {f}
    /\ IF f.outcome = "ok"
       THEN /\ recordings' = recordings \ {f.id}
            /\ selectedIds' = selectedIds \ {f.id}
            /\ UNCHANGED alertShown
       ELSE /\ alertShown' = IF f.outcome = "notOk"
                             THEN SingleNotOkAlert
                             ELSE SingleRejectedAlert
            /\ UNCHANGED <<recordings, selectedIds>>
    /\ deletingIds' = deletingIds \ {f.id}
    /\ UNCHANGED <<nextCall, bulkCalls, listFetch, serverIds>>

\* deleteSelectedRecordings up to its await: the Delete Selected button,
\* shown while something is selected and enabled while deletingIds is empty
DeleteSelectedRecordings ==
    /\ selectedIds # {}
    /\ deletingIds = {}
    /\ LET idsToDelete == selectedIds
           issued == FetchesFor(idsToDelete, nextCall, TRUE)
       IN  /\ deletingIds' = idsToDelete
           /\ fetches' = fetches \cup issued
           /\ bulkCalls' = {f.call : f \in issued}
           /\ nextCall' = nextCall + Cardinality(idsToDelete)
    /\ UNCHANGED <<recordings, selectedIds, listFetch, alertShown, serverIds>>

BulkFetches == {f \in fetches : f.call \in bulkCalls}

\* deleteSelectedRecordings after Promise.allSettled
DeleteSelectedSettle ==
    /\ bulkCalls # {}
    /\ \A f \in BulkFetches : f.outcome # "pending"
    /\ LET idsToDelete == {f.id : f \in BulkFetches}
           successfulDeletes == {f.id : f \in {g \in BulkFetches :
                                                    g.outcome = "ok"}}
           failedCount == Cardinality(idsToDelete)
                              - Cardinality(successfulDeletes)
       IN  /\ IF successfulDeletes # {}
              THEN /\ recordings' = recordings \ successfulDeletes
                   /\ selectedIds' = {}
              ELSE UNCHANGED <<recordings, selectedIds>>
           /\ alertShown' = IF failedCount > 0
                            THEN BulkFailedAlert(failedCount)
                            ELSE alertShown
    /\ deletingIds' = {}
    /\ fetches' = fetches \ BulkFetches
    /\ bulkCalls' = {}
    /\ UNCHANGED <<nextCall, listFetch, serverIds>>

\* fetchRecordings on a "recordingUploaded" event, up to its await: the
\* server answers with the ids it holds
FetchRecordings ==
    /\ ~listFetch.pending
    /\ listFetch' = [pending |-> TRUE, data |-> serverIds]
    /\ UNCHANGED <<recordings, deletingIds, selectedIds, fetches, nextCall,
                   bulkCalls, alertShown, serverIds>>

\* fetchRecordings after its await: setRecordings(data)
FetchRecordingsSettle ==
    /\ listFetch.pending
    /\ recordings' = listFetch.data
    /\ listFetch' = NoListFetch
    /\ UNCHANGED <<deletingIds, selectedIds, fetches, nextCall, bulkCalls,
                   alertShown, serverIds>>

NextList ==
    \/ \E id \in ListIds : toggleSelectRecording(id) /\ UNCHANGED besideList
    \/ toggleSelectAll /\ UNCHANGED besideList
    \/ \E id \in ListIds :
            /\ nextCall <= MaxDeleteCalls
            /\ DeleteRecording(id)
            /\ UNCHANGED besideList
    \/ \E f \in fetches, outcome \in FetchOutcomes :
            ServerDelete(f, outcome) /\ UNCHANGED besideList
    \/ \E f \in fetches : DeleteRecordingSettle(f) /\ UNCHANGED besideList
    \/ /\ nextCall + Cardinality(selectedIds) - 1 <= MaxDeleteCalls
       /\ DeleteSelectedRecordings
       /\ UNCHANGED besideList
    \/ DeleteSelectedSettle /\ UNCHANGED besideList
    \/ FetchRecordings /\ UNCHANGED besideList
    \/ FetchRecordingsSettle /\ UNCHANGED besideList

SpecList == Init /\ [][NextList]_vars

\* =================================================================== claims

\* C1: once the elapsed time of a recording session has reached the
\* 180-second cap, the interval callback's stopRecording ends the session:
\* MediaRecorder.stop() has been invoked on its recorder, the tracks of its
\* stream are stopped, its interval is cleared, and it stops with
\* recordingTime = 180.
C1_CapTickStopsSession ==
    \A s \in capFired :
        /\ stopCalls[s] >= 1
        /\ recState[s] # "recording"
        /\ \A k \in StreamTracks(recStream[s]) : tracks[s][k] # "live"
        /\ s \notin timers
        /\ recordingTime = MaxRecordingSeconds \/ ~isRecording

\* C2: recordingTime is an integer in 0..180 in every reachable state, and
\* an interval callback that runs when recordingTime is 180 leaves it at 180.
C2_TimeWithinCap ==
    [][/\ recordingTime' \in 0..MaxRecordingSeconds
       /\ (/\ recordingTime = MaxRecordingSeconds
           /\ \E t \in Sessions, throws \in BOOLEAN : Tick(t, throws))
          => recordingTime' = MaxRecordingSeconds]_vars

\* C2 witness: the interval callback has run at recordingTime = 180
C2_Witness == recordingTime = MaxRecordingSeconds /\ capFired # {}

\* C3: while a session is recording, recordingTime equals the number of
\* interval callbacks completed since that session started, which is at
\* most 180.
C3_TimeEqualsTicks ==
    isRecording => recordingTime = ticksDone /\ ticksDone <= MaxRecordingSeconds

\* no browser event is pending for the recorder of session s: no stop
\* event is queued, and it is not about to be stopped for lack of a live track
Settled(s) ==
    /\ recState[s] # "stopping"
    /\ ~(/\ recState[s] = "recording"
         /\ \A k \in StreamTracks(recStream[s]) : tracks[s][k] # "live")

\* C4: once the display video track's 'ended' handler has run for a
\* session and the recorder's events are delivered, the session is in the
\* state a user Stop leaves: recorder stopped and its blob built, every
\* track of its stream stopped, its interval cleared, its audio context
\* closed.
C4_EndedStopsSession ==
    \A s \in endedHandled :
        Settled(s) =>
            /\ recState[s] = "inactive"
            /\ blobCount[s] = 1
            /\ \A k \in StreamTracks(recStream[s]) : tracks[s][k] # "live"
            /\ s \notin timers
            /\ ctxState[s] # "open"

\* C5: for one session MediaRecorder.stop() is called at most once and at
\* most one blob is built, whatever the order of the stop requests.
C5_StopAtMostOnce ==
    \A s \in Sessions : stopCalls[s] <= 1 /\ blobCount[s] <= 1

\* no session is recording and no start is in progress
Idle ==
    /\ ~isRecording
    /\ \A s \in Sessions :
        /\ pc[s] \notin {"awaitDisplay", "awaitMic"}
        /\ recState[s] \notin {"recording", "stopping"}

\* C6: whenever no session is recording and no start is in progress, no
\* track acquired by startRecording (display video, display audio,
\* microphone) is live.
C6_NoLiveTrackWhenIdle ==
    Idle => \A s \in Sessions :
                \A k \in {"video", "audio", "mic"} : tracks[s][k] # "live"

\* C7: a rejected microphone request does not fail startRecording: the
\* session records the unmodified display stream, the warning is set when
\* recording starts, and the recorder's stop yields a blob built from the
\* collected fragments.
C7_MicDenialNonFatal ==
    [][\A s \in Sessions :
        /\ s \in micDenied' => pc'[s] \in {"running", "setupFailed"}
        /\ (s \in micDenied' /\ pc'[s] = "running")
              => recStream'[s] = "display" /\ recState'[s] # "none"
        /\ (s \notin micDenied /\ s \in micDenied' /\ pc'[s] = "running")
              => /\ isRecording'
                 /\ error' = MicWarning
                 /\ stream' = [sess |-> s, kind |-> "display"]
        /\ (s \in micDenied /\ recState[s] = "stopping"
                /\ recState'[s] = "inactive")
              => ~recordedBlob'.isNull /\ recordedBlob'.parts = chunksRef
      ]_vars

\* C7 witness: a session whose microphone was denied has stopped with a
\* non-empty recording
C7_Witness ==
    \E s \in micDenied :
        /\ recState[s] = "inactive"
        /\ ~recordedBlob.isNull
        /\ BlobSize(recordedBlob) > 0

NamedErrors == {"NotAllowedError", "NotFoundError", "NotSupportedError"}

\* C8: a rejected display request starts nothing: isRecording is left as
\* it was, no microphone request, no recorder and no interval exist for
\* the call, and the error message set is the one of the rejection's name,
\* a different one for each of the three named errors.
C8_DisplayDenialFatal ==
    [][\A s \in Sessions :
        /\ \A name \in ErrorNames :
            DisplayReject(s, name)
              => /\ isRecording' = isRecording
                 /\ mediaRecorderRef' = mediaRecorderRef
                 /\ timers' = timers
                 /\ error' # NoError
                 /\ error' = DisplayErrorMessage(name)
                 /\ \A n \in NamedErrors \ {name} :
                        error' # DisplayErrorMessage(n)
        /\ pc'[s] = "failed"
              => /\ s \notin micRequested'
                 /\ recState'[s] = "none"
                 /\ s \notin timers'
      ]_vars

\* C8 witness: a start was rejected with NotFoundError and nothing runs
C8_Witness ==
    \E s \in Sessions :
        /\ pc[s] = "failed"
        /\ error = DisplayErrorMessage("NotFoundError")
        /\ ~isRecording

\* the fragments of size > 0 of a sequence of dataavailable events
PositiveFrags(frags) == SelectSeq(frags, LAMBDA f : f.size > 0)

\* C9: the blob built when a session's recorder stops is the concatenation,
\* in arrival order, of exactly that session's fragments of size > 0.
C9_BlobIsSessionFragments ==
    [][\A s \in Sessions :
        (recState[s] = "stopping" /\ recState'[s] = "inactive")
            => recordedBlob' = NewBlob(PositiveFrags(delivered[s]))
      ]_vars

\* C10: when the recorder stops with no fragment of size > 0 collected, no
\* recording is handed over (recordedBlob stays null) and the empty-capture
\* error is set.
C10_NoEmptyRecording ==
    [][\A s \in Sessions :
        (recState[s] = "stopping" /\ recState'[s] = "inactive"
            /\ BlobSize(NewBlob(chunksRef)) = 0)
            => recordedBlob'.isNull /\ error' = EmptyCaptureError
      ]_vars

\* C11: once mediaRecorder.onerror has run for a session and the recorder's
\* events are delivered, the session has ended: the message 'Recording
\* failed. Please try again.' was set by the handler, every track of the
\* session's stream is stopped, its interval is cleared and the component
\* is not recording, so that Start can be clicked again.
C11_ErrorEndsSession ==
    \A s \in errorHandled :
        (recState[s] = "inactive")
            => /\ \A k \in StreamTracks(recStream[s]) : tracks[s][k] # "live"
               /\ s \notin timers
               /\ ~isRecording

\* the item of file id in the queue
QueueItems(id) ==
    {uploadFiles[i] : i \in {j \in DOMAIN uploadFiles : uploadFiles[j].id = id}}

\* C12: at most 3 POST requests are ever sent for a file of the queue, and
\* once a file has failed three times (status error, retryCount 3) no
\* action sends a request for it or starts another attempt.
C12_AtMostThreeAttempts ==
    [][\A id \in FileIds :
        /\ postsSent'[id] <= 3
        /\ \A f \in QueueItems(id) :
              (f.status = "error" /\ f.retryCount >= 3)
                 => /\ postsSent'[id] = postsSent[id]
                    /\ \A g \in QueueItems(id)' : g = f
      ]_vars

\* C12 witness: a file has failed three times and Upload All is offered
C12_Witness ==
    \E i \in DOMAIN uploadFiles :
        /\ uploadFiles[i].status = "error"
        /\ uploadFiles[i].retryCount = 3
        /\ uploadFiles[i].id \in PendingIds
        /\ \A j \in DOMAIN uploadFiles : uploadFiles[j].status # "uploading"

\* C13: a request that fails with a network error leaves its file with
\* status 'error' and the attempt counter raised by one, so that Retry is
\* offered and a second, successful attempt ends with 2 attempts recorded.
C13_NetworkFailureRecorded ==
    [][\A id \in FileIds :
        XhrError(id) =>
            \A f \in QueueItems(id) :
                \E g \in QueueItems(id)' :
                    /\ g.status = "error"
                    /\ g.retryCount = f.retryCount + 1
                    /\ CanRetry(g)
      ]_vars

\* no request is in progress
Quiescent == \A r \in Requests : req[r].pc \in {"idle", "done"}

\* the records that reference the chunk-set f
Referrers(f) == {id \in RecIds : records[id].exists /\ records[id].fileId = f}

\* C14: when every request has completed, records and chunk-sets are in
\* 1:1 correspondence: every stored chunk-set is referenced by exactly one
\* record, and every record's fileId names a stored chunk-set.
C14_OneToOne ==
    Quiescent =>
        /\ \A f \in FileRefs :
              chunkSets[f].stored => Cardinality(Referrers(f)) = 1
        /\ \A id \in RecIds :
              records[id].exists => chunkSets[records[id].fileId].stored

\* the elements of a sequence
Elements(seq) == {seq[i] : i \in DOMAIN seq}

C16_DeletedStaysNotFound ==
    [][\A r \in Requests :
        (Free(r) /\ req'[r] # req[r] /\ req'[r].kind \in {"GET", "DELETE"}
            /\ req'[r].id \in deletedOk)
          => /\ req'[r].pc = "done"
             /\ req'[r].resp.status = 404
      ]_vars

\* C16 witness: a GET and a DELETE received after the 200 of a DELETE for
\* their id were answered
C16_Witness ==
    \E r \in Requests, q \in Requests :
        /\ req[r].kind = "GET" /\ req[r].late /\ req[r].pc = "done"
        /\ req[q].kind = "DELETE" /\ req[q].late /\ req[q].pc = "done"

\* C17: POST responds 400 and stores nothing when the file is missing,
\* when its type does not begin with 'video/', or when its size exceeds
\* 100*1024*1024 bytes; a video file of exactly that size passes the checks
\* and is uploaded.
C17_PostValidation ==
    [][\A r \in {q \in Requests : req'[q].kind = "POST" /\ req'[q] # req[q]},
          entry \in PostEntries, d \in ApiDurations :
        PostStart(r, entry, d) =>
            /\ (\/ entry.kind = "null"
                \/ entry.kind = "file" /\ entry.type = "image/png"
                \/ entry.kind = "file" /\ entry.size > 100 * 1024 * 1024)
                  => /\ req'[r].pc = "done"
                     /\ req'[r].resp.status = 400
                     /\ records' = records /\ chunkSets' = chunkSets
            /\ entry = FileEntry("video/webm", 100 * 1024 * 1024)
                  => req'[r].pc = "upload"
      ]_vars

\* C17 witness: a file of exactly 100 MB is stored and a POST was refused
C17_Witness ==
    /\ \E id \in RecIds : records[id].exists /\ records[id].size = 100 * 1024 * 1024
    /\ \E r \in Requests :
          req[r].kind = "POST" /\ req[r].pc = "done" /\ req[r].resp.status = 400

\* ---- Range headers written out: "bytes=a-b" and "bytes=a-"
DigitChar(d) == CASE d = 0 -> "0" [] d = 1 -> "1" [] d = 2 -> "2"
                  [] OTHER -> "?"

\* the numbers whose decimal digits are among 0, 1, 2
Representable == {0, 1, 2, 10, 11, 12, 20, 21, 22}

Decimal(n) ==
    IF n < 10 THEN <<DigitChar(n)>>
    ELSE <<DigitChar(n \div 10), DigitChar(n % 10)>>

ClosedRange(a, b) == <<"B">> \o Decimal(a) \o <<"-">> \o Decimal(b)
OpenRange(a) == <<"B">> \o Decimal(a) \o <<"-">>

\* the GET requests answered in this step from a stored file
AnsweredNow ==
    {r \in Requests :
        /\ req[r].kind = "GET" /\ req[r].pc = "findFile" /\ req'[r].pc = "done"
        /\ chunkSets[req[r].fileId].stored}

\* the length of the file of request r
TotalOf(r) == chunkSets[req[r].fileId].length

\* C18: for a stored recording of length total and a Range header
\* 'bytes=a-b' or 'bytes=a-' with 0 <= a <= b <= total-1 (b = total-1 when
\* omitted), GET responds 206 with Content-Range 'bytes a-b/total' and
\* Content-Length b-a+1, and the store streams exactly the b-a+1 bytes a..b.
C18_RangeResponse ==
    [][\A r \in AnsweredNow :
        LET total == TotalOf(r) IN
        \A a \in 0..(total - 1) : \A b \in a..(total - 1) :
            (\/ req[r].range = ClosedRange(a, b)
             \/ req[r].range = OpenRange(a) /\ b = total - 1)
              => /\ req'[r].resp.status = 206
                 /\ req'[r].resp.contentRange =
                        [start |-> a, end |-> b, total |-> total]
                 /\ req'[r].resp.contentLength = b - a + 1
                 /\ req'[r].resp.streamStart = a
                 /\ StreamedBytes(total, req'[r].resp.streamStart,
                                  req'[r].resp.streamEnd) = b - a + 1
      ]_vars

\* C18 witness: 'bytes=2-12' of a 13-byte recording was answered 206 with
\* Content-Length 11
C18_Witness ==
    \E r \in Requests :
        /\ req[r].pc = "done" /\ req[r].resp.status = 206
        /\ req[r].range = ClosedRange(2, 12)
        /\ req[r].resp.contentRange = [start |-> 2, end |-> 12, total |-> 13]
        /\ req[r].resp.contentLength = 11

\* the Range headers that are malformed or out of bounds for a recording
\* of `total` bytes
BadRanges(total) ==
    {<<"B", "-", "2">>, <<"B", "x", "-", "1">>, <<"B", "-">>, <<"x">>}
    \cup {ClosedRange(a, b) : a \in {x \in Representable : x >= total},
                             b \in Representable}
    \cup {OpenRange(a) : a \in {x \in Representable : x >= total}}
    \cup UNION {{ClosedRange(a, b) : b \in {y \in Representable : y < a}} :
                    a \in Representable}

\* C19: a Range header that is malformed or out of bounds is answered with
\* a 4xx status, never with 206, and no download stream is opened for it.
C19_BadRangeRejected ==
    [][\A r \in AnsweredNow :
        req[r].range \in BadRanges(TotalOf(r))
          => /\ req'[r].resp.status \in 400..499
             /\ req'[r].resp.streamStart = NaN
             /\ req'[r].resp.streamEnd = NaN
      ]_vars

\* C20: when the end of the Range header is at or beyond the recording's
\* length, Content-Range, Content-Length and the interval requested from
\* the store use total-1 as the end, so Content-Length is at most
\* total - start.
C20_EndClamped ==
    [][\A r \in AnsweredNow :
        LET total == TotalOf(r) IN
        \A a \in 0..(total - 1) : \A b \in {x \in Representable : x >= total} :
            req[r].range = ClosedRange(a, b)
              => /\ req'[r].resp.contentRange.end = total - 1
                 /\ req'[r].resp.contentLength = total - a
                 /\ req'[r].resp.contentLength <= total - a
                 /\ req'[r].resp.streamEnd = total
      ]_vars

\* ---- the bulk delete of the selected recordings
BulkStarts == bulkCalls = {} /\ bulkCalls' # {}
BulkSettles == bulkCalls # {} /\ bulkCalls' = {}
IdsWith(outcomes) ==
    {f.id : f \in {g \in BulkFetches : g.outcome \in outcomes}}
\* the alert names both counts
ReportsBoth(alert, succeeded, failed) ==
    \E i, j \in DOMAIN alert.args :
        i # j /\ alert.args[i] = succeeded /\ alert.args[j] = failed

\* C21: a bulk delete of the selected set S issues one DELETE per id of S,
\* all in flight together; when all have settled, exactly the ids whose
\* request returned ok are removed from the list, every id whose request
\* failed or was rejected stays in the list, and the user is told how many
\* succeeded and how many failed, with failed = |S| - succeeded.
C21_BulkDelete ==
    [][ /\ BulkStarts =>
            LET issued == fetches' \ fetches
            IN  /\ {f.id : f \in issued} = selectedIds
                /\ Cardinality(issued) = Cardinality(selectedIds)
                /\ \A f \in issued : f.outcome = "pending"
        /\ BulkSettles =>
            LET S == IdsWith(FetchOutcomes)
                succeeded == IdsWith({"ok"})
                failed == IdsWith({"notOk", "rejected"})
            IN  /\ recordings' = recordings \ succeeded
                /\ failed \subseteq recordings'
                /\ ReportsBoth(alertShown', Cardinality(succeeded),
                               Cardinality(S) - Cardinality(succeeded))
      ]_vars

\* C29: while a DELETE request for a recording is in flight its id is in
\* deletingIds, and no second DELETE for the same id is in flight with it.
C29_InFlightIsDeleting ==
    /\ \A f \in fetches : f.id \in deletingIds
    /\ \A f, g \in fetches : f.id = g.id => f = g

\* C22: every persisted record has a duration in 0..180 and a content
\* type beginning with "video/"; a POST that supplies a duration above 180
\* or below 0 is answered with an error and creates no record.
C22_DurationValidated ==
    /\ [](\A id \in RecIds : records[id].exists =>
            /\ records[id].duration \in 0..180
            /\ TypeIsVideo(records[id].contentType))
    /\ [][\A r \in Requests :
            (/\ req[r].kind = "POST" /\ req[r].pc = "save"
             /\ req[r].duration # NaN
             /\ (req[r].duration > 180 \/ req[r].duration < 0)
             /\ req'[r].pc = "done")
                => /\ req'[r].resp.status >= 400
                   /\ records' = records
       ]_vars

\* C22 witness: a POST with the duration 181 was refused by save(), and a
\* record of duration 180 is stored
C22_Witness ==
    /\ \E r \in Requests :
        /\ req[r].kind = "POST" /\ req[r].pc = "done"
        /\ req[r].duration = 181 /\ req[r].failedAt = "save"
    /\ \E id \in RecIds : records[id].exists /\ records[id].duration = 180

\* C23: for each session that created an AudioContext and recorded with
\* it, close() is called on that context exactly once: never twice, not
\* zero times once the recorder's onstop has run, and never while the
\* session is still recording.
C23_ContextClosedOnce ==
    \A s \in Sessions :
        (ctxState[s] # "none" /\ recState[s] # "none") =>
            /\ closeCalls[s] <= 1
            /\ recState[s] = "inactive" => closeCalls[s] = 1
            /\ recState[s] = "recording" => closeCalls[s] = 0

\* C27: when the upload of a previous recording completes while a newer
\* session is recording, the newer session is left untouched: recordingTime
\* is not reset, its interval timer keeps running and its AudioContext
\* stays open.
C27_UploadLeavesNewSession ==
    [][\A s \in Sessions :
        (/\ uploadReq.active /\ ~uploadReq'.active
         /\ uploadStatus' = "success"
         /\ isRecording /\ recState[s] = "recording")
            => /\ recordingTime' = recordingTime
               /\ (s \in timers => s \in timers')
               /\ ctxState'[s] = ctxState[s]
      ]_vars

\* C26: at most one capture session exists at a time: no second start is
\* in progress beside a pending prompt or a recording session, there is
\* never more than one running interval timer and never more than one
\* recording MediaRecorder.
C26_OneSessionAtATime ==
    /\ Cardinality({s \in Sessions :
            \/ pc[s] \in {"awaitDisplay", "awaitMic"}
            \/ recState[s] = "recording"}) <= 1
    /\ Cardinality(timers) <= 1
    /\ Cardinality({s \in Sessions : recState[s] = "recording"}) <= 1

\* ---- the codec selection
\* the entries of MimeTypes the runtime supports, by position
SupportedAt == {i \in DOMAIN MimeTypes : isTypeSupported[MimeTypes[i]]}
Chosen == {s \in Sessions : mimeType[s] # "none"}

\* C24 as stated: for every combination of isTypeSupported answers the
\* chosen type is the first supported entry of the list vp9, vp8, webm.
C24_FirstSupportedEntry ==
    \A s \in Chosen :
        \E i \in SupportedAt :
            /\ mimeType[s] = MimeTypes[i]
            /\ \A j \in SupportedAt : i <= j

\* C24: the chosen type is 'video/webm;codecs=vp9,opus' if the runtime
\* supports it, else 'video/webm;codecs=vp8,opus' if it supports that, else
\* 'video/webm' whether or not the runtime supports it; the choice depends
\* on nothing but the answers for vp9 and vp8.
C24_CodecSelection ==
    \A s \in Chosen :
        /\ isTypeSupported[Vp9Opus] => mimeType[s] = Vp9Opus
        /\ (~isTypeSupported[Vp9Opus] /\ isTypeSupported[Vp8Opus])
              => mimeType[s] = Vp8Opus
        /\ (~isTypeSupported[Vp9Opus] /\ ~isTypeSupported[Vp8Opus])
              => mimeType[s] = PlainWebm

\* C24 witness: vp8 chosen where vp9 is missing, and the session records
C24_Witness ==
    \E s \in Chosen :
        /\ ~isTypeSupported[Vp9Opus]
        /\ mimeType[s] = Vp8Opus
        /\ recState[s] = "recording"

\* C25: every upload request sent for a queued item eventually takes the
\* item out of status 'uploading', to 'success' or to 'error' (or the item
\* has left the queue): no item stays 'uploading' forever.
C25_UploadingEnds ==
    \A id \in FileIds :
        (\E f \in QueueItems(id) : f.status = "uploading")
            ~> (\A f \in QueueItems(id) : f.status \in {"success", "error"})

\* C28: a file that failed validateFile when it was added to the queue is
\* never sent to the server: no POST is issued for it.
C28_InvalidNeverSent ==
    \A i \in DOMAIN uploadFiles :
        validateFile(uploadFiles[i].file) # NoValidationError
            => postsSent[uploadFiles[i].id] = 0

\* two DELETE requests for id that both found the record have answered,
\* and the server has received no request beside these two
BothAnswered(r, q, id) ==
    /\ r # q
    /\ \A p \in Requests \ {r, q} : req[p].pc = "idle"
    /\ req[r].kind = "DELETE" /\ req[r].pc = "done" /\ req[r].id = id
    /\ req[q].kind = "DELETE" /\ req[q].pc = "done" /\ req[q].id = id
    /\ req[r].resp.status \notin {400, 404}
    /\ req[q].resp.status \notin {400, 404}

\* C30: for any interleaving of two concurrent DELETE requests for the same
\* existing recording (two, and no third request beside them), once both
\* have answered neither the record nor its chunk-set is left, and exactly
\* one of the two answered 200; the other answered 404 or 500.
C30_ConcurrentDeletes ==
    \A r \in Requests, q \in Requests, id \in RecIds :
        BothAnswered(r, q, id) =>
            /\ ~records[id].exists
            /\ \A f \in FileRefs : chunkSets[f].stored => Referrers(f) # {}
            /\ \/ /\ req[r].resp.status = 200
                  /\ req[q].resp.status \in {404, 500}
               \/ /\ req[q].resp.status = 200
                  /\ req[r].resp.status \in {404, 500}

\* C30 witness: two DELETE requests found the same record; one answered
\* 200 and the other 500 at bucket.delete
C30_Witness ==
    \E r \in Requests, q \in Requests :
        /\ BothAnswered(r, q, 1)
        /\ req[r].resp.status = 200
        /\ req[q].resp.status = 500 /\ req[q].failedAt = "noFile"

====
